---- MODULE Spec2Model ----
(***************************************************************************)
(* zviewer (src/zviewer.c): a curses viewer that watches one file with     *)
(* inotify, pipes it through a render program and shows the output in a    *)
(* scrollable pad.  The model follows main()'s event loop: one action per  *)
(* handler (handle_event, handle_key, draw_screen) and per way select() or *)
(* read() can return.  Text is modelled byte by byte: a string is a tuple  *)
(* of one-character strings, so splitting the render's stream into lines   *)
(* and formatting the diagnostic are computed, not assumed.  The render's  *)
(* output is text: it holds no NUL byte.                                   *)
(*                                                                         *)
(* Spec is the viewer on a terminal of fixed size, select() answering with *)
(* either descriptor.  SpecResize adds SIGWINCH and what curses does with  *)
(* it, keys being typed and the watched file left alone; SpecUnattended    *)
(* has the terminal resized and the watched file changing while nobody     *)
(* types.  SpecKeys counts runs of 'g' keys while the watched file is left *)
(* alone.  SpecInput follows the keyboard: the terminal's queue, which the *)
(* render child shares, the bytes curses holds, and the descriptors        *)
(* select() reports.                                                       *)
(***************************************************************************)
EXTENDS Integers, Sequences, FiniteSets, TLC

\* Bounds of the model.
MaxStream == 3      \* longest render output, in bytes
MaxLINES == 2       \* tallest terminal, in rows
MaxBatch == 2       \* most inotify events returned by one read()
MaxRun == 4         \* longest counted run of 'g' keys
MaxPending == 2     \* most keys typed and not yet returned by getch()
MaxCOLS == 2        \* widest terminal, in columns
MaxUngot == 2       \* most KEY_RESIZE curses holds at a time

VARIABLES
    pc,             \* where main() is: "main", "reload", "wait", "events", "draw", "exited"
    LINES,          \* curses' LINES, set by initscr() and, after a resize, by refresh()
    COLS,           \* curses' COLS, set with LINES
    contents,       \* G.contents: the lines shown (<<>> is the NULL pointer)
    pad,            \* G.pad, as <<its rows, its columns>> (<<>>: NULL)
    rowoff,         \* G.rowoff
    last_key,       \* handle_key's static last_key
    err,            \* G.err
    msg,            \* G.msg
    cursesEnabled,  \* G.cursesEnabled
    atexit,         \* whether atexit(curses_cleanup) has been registered
    buf,            \* the inotify events read in this turn of the loop (<<>>: none)
    p,              \* the for loop's p: the place in buf of the next event, from 1
    key,            \* the key handle_key got in this turn of the loop (NUL: none)
    first,          \* the last do_render's newContents[0], as <<line>> (<<>>: no line)
    wstatus,        \* the last do_render's wstatus, as <<w>> (<<>>: child not reaped)
    reloads,        \* do_reload calls since the loop last waited in select()
    change,         \* <<how the last reload's output related to the old contents,
                    \*   the old G.nlines>>
    tty,            \* what happened to the terminal, in order
    stderr,         \* the bytes written to the viewer's standard error
    exitCode,       \* the exit status the parent of the viewer sees
    children,       \* render children forked and not yet reaped by waitpid()
    screen,         \* what the last draw_screen showed: <<the row of the pad that
                    \*   prefresh put at the top>> (<<>>: nothing of the pad)
    \* The terminal and the watched file, as far as a specification follows them:
    fds,            \* the descriptors select() reported ready in this turn
    stdin,          \* the bytes typed that wait in the terminal's queue
    held,           \* the typed bytes curses has read and not yet returned
    winch,          \* <<rows, columns>> of the terminal at a SIGWINCH curses has
                    \*   not yet taken in (<<>>: none)
    ungot,          \* the KEY_RESIZE curses holds for the next calls of getch()
    touched,        \* the rows of stdscr changed since its last refresh, from 0
    grun            \* <<length of the run of 'g' keys the last keys form when it
                    \*   began with "gg" not pending (-1: it began pending),
                    \*   calls of set_rowoff(0) in that run>>

\* The variables of the viewer, and those of its surroundings.
prog == <<pc, LINES, COLS, contents, pad, rowoff, last_key, err, msg, cursesEnabled, atexit,
          buf, p, key, first, wstatus, reloads, change, tty, stderr, exitCode,
          children, screen>>
env == <<fds, stdin, held, winch, ungot, touched, grun>>
vars == <<prog, env>>

----------------------------------------------------------------------------
\* Text

Chars == {"a", "\n"}
SeqsUpTo(S, n) == UNION {[1..k -> S] : k \in 0..n}
\* What a render program can write to the pipe.
Streams == SeqsUpTo(Chars, MaxStream)

\* String literals of the source.
MsgPipe == <<"f", "a", "i", "l", "e", "d", " ", "t", "o", " ", "c", "r", "e", "a", "t", "e", " ", "p", "i", "p", "e">>
MsgFork == <<"f", "a", "i", "l", "e", "d", " ", "t", "o", " ", "r", "u", "n", " ", "t", "h", "e", " ", "r", "e", "n", "d", "e", "r">>
MsgFdopen == <<"c", "a", "n", "n", "o", "t", " ", "r", "e", "a", "d", " ", "f", "r", "o", "m", " ", "t", "h", "e", " ", "r", "e", "n", "d", "e", "r">>
MsgRead == <<"f", "a", "i", "l", "e", "d", " ", "t", "o", " ", "r", "e", "a", "d", " ", "f", "r", "o", "m", " ", "t", "h", "e", " ", "r", "e", "n", "d", "e", "r">>
MsgTerminated == <<"r", "e", "n", "d", "e", "r", " ", "t", "e", "r", "m", "i", "n", "a", "t", "e", "d">>
MsgFailed == <<"r", "e", "n", "d", "e", "r", " ", "f", "a", "i", "l", "e", "d">>
MsgInotifyRead == <<"f", "a", "i", "l", "e", "d", " ", "t", "o", " ", "r", "e", "a", "d", " ", "i", "n", "o", "t", "i", "f", "y", " ", "e", "v", "e", "n", "t">>
MsgSelect == <<"f", "a", "i", "l", "e", "d", " ", "t", "o", " ", "w", "a", "i", "t", " ", "f", "o", "r", " ", "c", "h", "a", "n", "g", "e", "s">>
MsgInotifyInit == <<"f", "a", "i", "l", "e", "d", " ", "t", "o", " ", "c", "r", "e", "a", "t", "e", " ", "i", "n", "o", "t", "i", "f", "y", " ", "i", "n", "s", "t", "a", "n", "c", "e">>
MsgWatch == <<"f", "a", "i", "l", "e", "d", " ", "t", "o", " ", "w", "a", "t", "c", "h", " ">>
MsgUsage1 == <<"U", "S", "A", "G", "E", ":", "\n", "\t">>
MsgUsage2 == <<" ", "<", "F", "I", "L", "E", ">", " ", "<", "R", "E", "N", "D", "E", "R", "_", "P", "R", "O", "G", ">", "\n">>
ColonSpace == <<":", " ">>
Newline == <<"\n">>
\* argv[0] and argv[1] of the run.
Progname == <<"z", "v", "i", "e", "w", "e", "r">>
File == <<"f">>

\* errno values (errno.h).
EINTR == 4
ECHILD == 10
EAGAIN == 11
ENOMEM == 12
ENFILE == 23
EMFILE == 24

\* The errnos a failing call can leave, by its manual page.  waitpid(): EINTR
\* when a signal interrupts it, ECHILD when the child is gone already (SIGCHLD
\* ignored: the kernel reaps it).  inotify_add_watch(): ENOENT, EACCES,
\* ENOTDIR, ENOSPC, ENAMETOOLONG, ELOOP or ENOMEM.  The inotify descriptor is
\* non-blocking: read() on it fails with EAGAIN.
Errnos(call) ==
    CASE call = "pipe" -> {EMFILE, ENFILE}
      [] call = "inotify_init1" -> {EMFILE, ENFILE, ENOMEM}
      [] call = "inotify_add_watch" -> {2, 13, 20, 28, 36, 40, ENOMEM}
      [] call = "fork" -> {EAGAIN, ENOMEM}
      [] call = "read" -> {EAGAIN}
      [] call \in {"fdopen", "realloc"} -> {ENOMEM}
      [] call = "waitpid" -> {EINTR, ECHILD}
      [] call = "select" -> {EINTR, ENOMEM}
      [] OTHER -> {0}

\* "%d" of a number.
Digit(d) == <<"0", "1", "2", "3", "4", "5", "6", "7", "8", "9">>[d + 1]
RECURSIVE itoa(_)
itoa(n) ==
    IF n < 0 THEN <<"-">> \o itoa(-n)
    ELSE IF n < 10 THEN <<Digit(n)>>
    ELSE itoa(n \div 10) \o <<Digit(n % 10)>>

\* The C library's text for each errno from 1 (<<>>: it has none).
sys_errlist == <<
    <<"O", "p", "e", "r", "a", "t", "i", "o", "n", " ", "n", "o", "t", " ", "p", "e", "r", "m", "i", "t", "t", "e", "d">>,
    <<"N", "o", " ", "s", "u", "c", "h", " ", "f", "i", "l", "e", " ", "o", "r", " ", "d", "i", "r", "e", "c", "t", "o", "r", "y">>,
    <<"N", "o", " ", "s", "u", "c", "h", " ", "p", "r", "o", "c", "e", "s", "s">>,
    <<"I", "n", "t", "e", "r", "r", "u", "p", "t", "e", "d", " ", "s", "y", "s", "t", "e", "m", " ", "c", "a", "l", "l">>,
    <<"I", "n", "p", "u", "t", "/", "o", "u", "t", "p", "u", "t", " ", "e", "r", "r", "o", "r">>,
    <<"N", "o", " ", "s", "u", "c", "h", " ", "d", "e", "v", "i", "c", "e", " ", "o", "r", " ", "a", "d", "d", "r", "e", "s", "s">>,
    <<"A", "r", "g", "u", "m", "e", "n", "t", " ", "l", "i", "s", "t", " ", "t", "o", "o", " ", "l", "o", "n", "g">>,
    <<"E", "x", "e", "c", " ", "f", "o", "r", "m", "a", "t", " ", "e", "r", "r", "o", "r">>,
    <<"B", "a", "d", " ", "f", "i", "l", "e", " ", "d", "e", "s", "c", "r", "i", "p", "t", "o", "r">>,
    <<"N", "o", " ", "c", "h", "i", "l", "d", " ", "p", "r", "o", "c", "e", "s", "s", "e", "s">>,
    <<"R", "e", "s", "o", "u", "r", "c", "e", " ", "t", "e", "m", "p", "o", "r", "a", "r", "i", "l", "y", " ", "u", "n", "a", "v", "a", "i", "l", "a", "b", "l", "e">>,
    <<"C", "a", "n", "n", "o", "t", " ", "a", "l", "l", "o", "c", "a", "t", "e", " ", "m", "e", "m", "o", "r", "y">>,
    <<"P", "e", "r", "m", "i", "s", "s", "i", "o", "n", " ", "d", "e", "n", "i", "e", "d">>,
    <<"B", "a", "d", " ", "a", "d", "d", "r", "e", "s", "s">>,
    <<"B", "l", "o", "c", "k", " ", "d", "e", "v", "i", "c", "e", " ", "r", "e", "q", "u", "i", "r", "e", "d">>,
    <<"D", "e", "v", "i", "c", "e", " ", "o", "r", " ", "r", "e", "s", "o", "u", "r", "c", "e", " ", "b", "u", "s", "y">>,
    <<"F", "i", "l", "e", " ", "e", "x", "i", "s", "t", "s">>,
    <<"I", "n", "v", "a", "l", "i", "d", " ", "c", "r", "o", "s", "s", "-", "d", "e", "v", "i", "c", "e", " ", "l", "i", "n", "k">>,
    <<"N", "o", " ", "s", "u", "c", "h", " ", "d", "e", "v", "i", "c", "e">>,
    <<"N", "o", "t", " ", "a", " ", "d", "i", "r", "e", "c", "t", "o", "r", "y">>,
    <<"I", "s", " ", "a", " ", "d", "i", "r", "e", "c", "t", "o", "r", "y">>,
    <<"I", "n", "v", "a", "l", "i", "d", " ", "a", "r", "g", "u", "m", "e", "n", "t">>,
    <<"T", "o", "o", " ", "m", "a", "n", "y", " ", "o", "p", "e", "n", " ", "f", "i", "l", "e", "s", " ", "i", "n", " ", "s", "y", "s", "t", "e", "m">>,
    <<"T", "o", "o", " ", "m", "a", "n", "y", " ", "o", "p", "e", "n", " ", "f", "i", "l", "e", "s">>,
    <<"I", "n", "a", "p", "p", "r", "o", "p", "r", "i", "a", "t", "e", " ", "i", "o", "c", "t", "l", " ", "f", "o", "r", " ", "d", "e", "v", "i", "c", "e">>,
    <<"T", "e", "x", "t", " ", "f", "i", "l", "e", " ", "b", "u", "s", "y">>,
    <<"F", "i", "l", "e", " ", "t", "o", "o", " ", "l", "a", "r", "g", "e">>,
    <<"N", "o", " ", "s", "p", "a", "c", "e", " ", "l", "e", "f", "t", " ", "o", "n", " ", "d", "e", "v", "i", "c", "e">>,
    <<"I", "l", "l", "e", "g", "a", "l", " ", "s", "e", "e", "k">>,
    <<"R", "e", "a", "d", "-", "o", "n", "l", "y", " ", "f", "i", "l", "e", " ", "s", "y", "s", "t", "e", "m">>,
    <<"T", "o", "o", " ", "m", "a", "n", "y", " ", "l", "i", "n", "k", "s">>,
    <<"B", "r", "o", "k", "e", "n", " ", "p", "i", "p", "e">>,
    <<"N", "u", "m", "e", "r", "i", "c", "a", "l", " ", "a", "r", "g", "u", "m", "e", "n", "t", " ", "o", "u", "t", " ", "o", "f", " ", "d", "o", "m", "a", "i", "n">>,
    <<"N", "u", "m", "e", "r", "i", "c", "a", "l", " ", "r", "e", "s", "u", "l", "t", " ", "o", "u", "t", " ", "o", "f", " ", "r", "a", "n", "g", "e">>,
    <<"R", "e", "s", "o", "u", "r", "c", "e", " ", "d", "e", "a", "d", "l", "o", "c", "k", " ", "a", "v", "o", "i", "d", "e", "d">>,
    <<"F", "i", "l", "e", " ", "n", "a", "m", "e", " ", "t", "o", "o", " ", "l", "o", "n", "g">>,
    <<"N", "o", " ", "l", "o", "c", "k", "s", " ", "a", "v", "a", "i", "l", "a", "b", "l", "e">>,
    <<"F", "u", "n", "c", "t", "i", "o", "n", " ", "n", "o", "t", " ", "i", "m", "p", "l", "e", "m", "e", "n", "t", "e", "d">>,
    <<"D", "i", "r", "e", "c", "t", "o", "r", "y", " ", "n", "o", "t", " ", "e", "m", "p", "t", "y">>,
    <<"T", "o", "o", " ", "m", "a", "n", "y", " ", "l", "e", "v", "e", "l", "s", " ", "o", "f", " ", "s", "y", "m", "b", "o", "l", "i", "c", " ", "l", "i", "n", "k", "s">>,
    <<>>,
    <<"N", "o", " ", "m", "e", "s", "s", "a", "g", "e", " ", "o", "f", " ", "d", "e", "s", "i", "r", "e", "d", " ", "t", "y", "p", "e">>,
    <<"I", "d", "e", "n", "t", "i", "f", "i", "e", "r", " ", "r", "e", "m", "o", "v", "e", "d">>,
    <<"C", "h", "a", "n", "n", "e", "l", " ", "n", "u", "m", "b", "e", "r", " ", "o", "u", "t", " ", "o", "f", " ", "r", "a", "n", "g", "e">>,
    <<"L", "e", "v", "e", "l", " ", "2", " ", "n", "o", "t", " ", "s", "y", "n", "c", "h", "r", "o", "n", "i", "z", "e", "d">>,
    <<"L", "e", "v", "e", "l", " ", "3", " ", "h", "a", "l", "t", "e", "d">>,
    <<"L", "e", "v", "e", "l", " ", "3", " ", "r", "e", "s", "e", "t">>,
    <<"L", "i", "n", "k", " ", "n", "u", "m", "b", "e", "r", " ", "o", "u", "t", " ", "o", "f", " ", "r", "a", "n", "g", "e">>,
    <<"P", "r", "o", "t", "o", "c", "o", "l", " ", "d", "r", "i", "v", "e", "r", " ", "n", "o", "t", " ", "a", "t", "t", "a", "c", "h", "e", "d">>,
    <<"N", "o", " ", "C", "S", "I", " ", "s", "t", "r", "u", "c", "t", "u", "r", "e", " ", "a", "v", "a", "i", "l", "a", "b", "l", "e">>,
    <<"L", "e", "v", "e", "l", " ", "2", " ", "h", "a", "l", "t", "e", "d">>,
    <<"I", "n", "v", "a", "l", "i", "d", " ", "e", "x", "c", "h", "a", "n", "g", "e">>,
    <<"I", "n", "v", "a", "l", "i", "d", " ", "r", "e", "q", "u", "e", "s", "t", " ", "d", "e", "s", "c", "r", "i", "p", "t", "o", "r">>,
    <<"E", "x", "c", "h", "a", "n", "g", "e", " ", "f", "u", "l", "l">>,
    <<"N", "o", " ", "a", "n", "o", "d", "e">>,
    <<"I", "n", "v", "a", "l", "i", "d", " ", "r", "e", "q", "u", "e", "s", "t", " ", "c", "o", "d", "e">>,
    <<"I", "n", "v", "a", "l", "i", "d", " ", "s", "l", "o", "t">>,
    <<>>,
    <<"B", "a", "d", " ", "f", "o", "n", "t", " ", "f", "i", "l", "e", " ", "f", "o", "r", "m", "a", "t">>,
    <<"D", "e", "v", "i", "c", "e", " ", "n", "o", "t", " ", "a", " ", "s", "t", "r", "e", "a", "m">>,
    <<"N", "o", " ", "d", "a", "t", "a", " ", "a", "v", "a", "i", "l", "a", "b", "l", "e">>,
    <<"T", "i", "m", "e", "r", " ", "e", "x", "p", "i", "r", "e", "d">>,
    <<"O", "u", "t", " ", "o", "f", " ", "s", "t", "r", "e", "a", "m", "s", " ", "r", "e", "s", "o", "u", "r", "c", "e", "s">>,
    <<"M", "a", "c", "h", "i", "n", "e", " ", "i", "s", " ", "n", "o", "t", " ", "o", "n", " ", "t", "h", "e", " ", "n", "e", "t", "w", "o", "r", "k">>,
    <<"P", "a", "c", "k", "a", "g", "e", " ", "n", "o", "t", " ", "i", "n", "s", "t", "a", "l", "l", "e", "d">>,
    <<"O", "b", "j", "e", "c", "t", " ", "i", "s", " ", "r", "e", "m", "o", "t", "e">>,
    <<"L", "i", "n", "k", " ", "h", "a", "s", " ", "b", "e", "e", "n", " ", "s", "e", "v", "e", "r", "e", "d">>,
    <<"A", "d", "v", "e", "r", "t", "i", "s", "e", " ", "e", "r", "r", "o", "r">>,
    <<"S", "r", "m", "o", "u", "n", "t", " ", "e", "r", "r", "o", "r">>,
    <<"C", "o", "m", "m", "u", "n", "i", "c", "a", "t", "i", "o", "n", " ", "e", "r", "r", "o", "r", " ", "o", "n", " ", "s", "e", "n", "d">>,
    <<"P", "r", "o", "t", "o", "c", "o", "l", " ", "e", "r", "r", "o", "r">>,
    <<"M", "u", "l", "t", "i", "h", "o", "p", " ", "a", "t", "t", "e", "m", "p", "t", "e", "d">>,
    <<"R", "F", "S", " ", "s", "p", "e", "c", "i", "f", "i", "c", " ", "e", "r", "r", "o", "r">>,
    <<"B", "a", "d", " ", "m", "e", "s", "s", "a", "g", "e">>,
    <<"V", "a", "l", "u", "e", " ", "t", "o", "o", " ", "l", "a", "r", "g", "e", " ", "f", "o", "r", " ", "d", "e", "f", "i", "n", "e", "d", " ", "d", "a", "t", "a", " ", "t", "y", "p", "e">>,
    <<"N", "a", "m", "e", " ", "n", "o", "t", " ", "u", "n", "i", "q", "u", "e", " ", "o", "n", " ", "n", "e", "t", "w", "o", "r", "k">>,
    <<"F", "i", "l", "e", " ", "d", "e", "s", "c", "r", "i", "p", "t", "o", "r", " ", "i", "n", " ", "b", "a", "d", " ", "s", "t", "a", "t", "e">>,
    <<"R", "e", "m", "o", "t", "e", " ", "a", "d", "d", "r", "e", "s", "s", " ", "c", "h", "a", "n", "g", "e", "d">>,
    <<"C", "a", "n", " ", "n", "o", "t", " ", "a", "c", "c", "e", "s", "s", " ", "a", " ", "n", "e", "e", "d", "e", "d", " ", "s", "h", "a", "r", "e", "d", " ", "l", "i", "b", "r", "a", "r", "y">>,
    <<"A", "c", "c", "e", "s", "s", "i", "n", "g", " ", "a", " ", "c", "o", "r", "r", "u", "p", "t", "e", "d", " ", "s", "h", "a", "r", "e", "d", " ", "l", "i", "b", "r", "a", "r", "y">>,
    <<".", "l", "i", "b", " ", "s", "e", "c", "t", "i", "o", "n", " ", "i", "n", " ", "a", ".", "o", "u", "t", " ", "c", "o", "r", "r", "u", "p", "t", "e", "d">>,
    <<"A", "t", "t", "e", "m", "p", "t", "i", "n", "g", " ", "t", "o", " ", "l", "i", "n", "k", " ", "i", "n", " ", "t", "o", "o", " ", "m", "a", "n", "y", " ", "s", "h", "a", "r", "e", "d", " ", "l", "i", "b", "r", "a", "r", "i", "e", "s">>,
    <<"C", "a", "n", "n", "o", "t", " ", "e", "x", "e", "c", " ", "a", " ", "s", "h", "a", "r", "e", "d", " ", "l", "i", "b", "r", "a", "r", "y", " ", "d", "i", "r", "e", "c", "t", "l", "y">>,
    <<"I", "n", "v", "a", "l", "i", "d", " ", "o", "r", " ", "i", "n", "c", "o", "m", "p", "l", "e", "t", "e", " ", "m", "u", "l", "t", "i", "b", "y", "t", "e", " ", "o", "r", " ", "w", "i", "d", "e", " ", "c", "h", "a", "r", "a", "c", "t", "e", "r">>,
    <<"I", "n", "t", "e", "r", "r", "u", "p", "t", "e", "d", " ", "s", "y", "s", "t", "e", "m", " ", "c", "a", "l", "l", " ", "s", "h", "o", "u", "l", "d", " ", "b", "e", " ", "r", "e", "s", "t", "a", "r", "t", "e", "d">>,
    <<"S", "t", "r", "e", "a", "m", "s", " ", "p", "i", "p", "e", " ", "e", "r", "r", "o", "r">>,
    <<"T", "o", "o", " ", "m", "a", "n", "y", " ", "u", "s", "e", "r", "s">>,
    <<"S", "o", "c", "k", "e", "t", " ", "o", "p", "e", "r", "a", "t", "i", "o", "n", " ", "o", "n", " ", "n", "o", "n", "-", "s", "o", "c", "k", "e", "t">>,
    <<"D", "e", "s", "t", "i", "n", "a", "t", "i", "o", "n", " ", "a", "d", "d", "r", "e", "s", "s", " ", "r", "e", "q", "u", "i", "r", "e", "d">>,
    <<"M", "e", "s", "s", "a", "g", "e", " ", "t", "o", "o", " ", "l", "o", "n", "g">>,
    <<"P", "r", "o", "t", "o", "c", "o", "l", " ", "w", "r", "o", "n", "g", " ", "t", "y", "p", "e", " ", "f", "o", "r", " ", "s", "o", "c", "k", "e", "t">>,
    <<"P", "r", "o", "t", "o", "c", "o", "l", " ", "n", "o", "t", " ", "a", "v", "a", "i", "l", "a", "b", "l", "e">>,
    <<"P", "r", "o", "t", "o", "c", "o", "l", " ", "n", "o", "t", " ", "s", "u", "p", "p", "o", "r", "t", "e", "d">>,
    <<"S", "o", "c", "k", "e", "t", " ", "t", "y", "p", "e", " ", "n", "o", "t", " ", "s", "u", "p", "p", "o", "r", "t", "e", "d">>,
    <<"O", "p", "e", "r", "a", "t", "i", "o", "n", " ", "n", "o", "t", " ", "s", "u", "p", "p", "o", "r", "t", "e", "d">>,
    <<"P", "r", "o", "t", "o", "c", "o", "l", " ", "f", "a", "m", "i", "l", "y", " ", "n", "o", "t", " ", "s", "u", "p", "p", "o", "r", "t", "e", "d">>,
    <<"A", "d", "d", "r", "e", "s", "s", " ", "f", "a", "m", "i", "l", "y", " ", "n", "o", "t", " ", "s", "u", "p", "p", "o", "r", "t", "e", "d", " ", "b", "y", " ", "p", "r", "o", "t", "o", "c", "o", "l">>,
    <<"A", "d", "d", "r", "e", "s", "s", " ", "a", "l", "r", "e", "a", "d", "y", " ", "i", "n", " ", "u", "s", "e">>,
    <<"C", "a", "n", "n", "o", "t", " ", "a", "s", "s", "i", "g", "n", " ", "r", "e", "q", "u", "e", "s", "t", "e", "d", " ", "a", "d", "d", "r", "e", "s", "s">>,
    <<"N", "e", "t", "w", "o", "r", "k", " ", "i", "s", " ", "d", "o", "w", "n">>,
    <<"N", "e", "t", "w", "o", "r", "k", " ", "i", "s", " ", "u", "n", "r", "e", "a", "c", "h", "a", "b", "l", "e">>,
    <<"N", "e", "t", "w", "o", "r", "k", " ", "d", "r", "o", "p", "p", "e", "d", " ", "c", "o", "n", "n", "e", "c", "t", "i", "o", "n", " ", "o", "n", " ", "r", "e", "s", "e", "t">>,
    <<"S", "o", "f", "t", "w", "a", "r", "e", " ", "c", "a", "u", "s", "e", "d", " ", "c", "o", "n", "n", "e", "c", "t", "i", "o", "n", " ", "a", "b", "o", "r", "t">>,
    <<"C", "o", "n", "n", "e", "c", "t", "i", "o", "n", " ", "r", "e", "s", "e", "t", " ", "b", "y", " ", "p", "e", "e", "r">>,
    <<"N", "o", " ", "b", "u", "f", "f", "e", "r", " ", "s", "p", "a", "c", "e", " ", "a", "v", "a", "i", "l", "a", "b", "l", "e">>,
    <<"T", "r", "a", "n", "s", "p", "o", "r", "t", " ", "e", "n", "d", "p", "o", "i", "n", "t", " ", "i", "s", " ", "a", "l", "r", "e", "a", "d", "y", " ", "c", "o", "n", "n", "e", "c", "t", "e", "d">>,
    <<"T", "r", "a", "n", "s", "p", "o", "r", "t", " ", "e", "n", "d", "p", "o", "i", "n", "t", " ", "i", "s", " ", "n", "o", "t", " ", "c", "o", "n", "n", "e", "c", "t", "e", "d">>,
    <<"C", "a", "n", "n", "o", "t", " ", "s", "e", "n", "d", " ", "a", "f", "t", "e", "r", " ", "t", "r", "a", "n", "s", "p", "o", "r", "t", " ", "e", "n", "d", "p", "o", "i", "n", "t", " ", "s", "h", "u", "t", "d", "o", "w", "n">>,
    <<"T", "o", "o", " ", "m", "a", "n", "y", " ", "r", "e", "f", "e", "r", "e", "n", "c", "e", "s", ":", " ", "c", "a", "n", "n", "o", "t", " ", "s", "p", "l", "i", "c", "e">>,
    <<"C", "o", "n", "n", "e", "c", "t", "i", "o", "n", " ", "t", "i", "m", "e", "d", " ", "o", "u", "t">>,
    <<"C", "o", "n", "n", "e", "c", "t", "i", "o", "n", " ", "r", "e", "f", "u", "s", "e", "d">>,
    <<"H", "o", "s", "t", " ", "i", "s", " ", "d", "o", "w", "n">>,
    <<"N", "o", " ", "r", "o", "u", "t", "e", " ", "t", "o", " ", "h", "o", "s", "t">>,
    <<"O", "p", "e", "r", "a", "t", "i", "o", "n", " ", "a", "l", "r", "e", "a", "d", "y", " ", "i", "n", " ", "p", "r", "o", "g", "r", "e", "s", "s">>,
    <<"O", "p", "e", "r", "a", "t", "i", "o", "n", " ", "n", "o", "w", " ", "i", "n", " ", "p", "r", "o", "g", "r", "e", "s", "s">>,
    <<"S", "t", "a", "l", "e", " ", "f", "i", "l", "e", " ", "h", "a", "n", "d", "l", "e">>,
    <<"S", "t", "r", "u", "c", "t", "u", "r", "e", " ", "n", "e", "e", "d", "s", " ", "c", "l", "e", "a", "n", "i", "n", "g">>,
    <<"N", "o", "t", " ", "a", " ", "X", "E", "N", "I", "X", " ", "n", "a", "m", "e", "d", " ", "t", "y", "p", "e", " ", "f", "i", "l", "e">>,
    <<"N", "o", " ", "X", "E", "N", "I", "X", " ", "s", "e", "m", "a", "p", "h", "o", "r", "e", "s", " ", "a", "v", "a", "i", "l", "a", "b", "l", "e">>,
    <<"I", "s", " ", "a", " ", "n", "a", "m", "e", "d", " ", "t", "y", "p", "e", " ", "f", "i", "l", "e">>,
    <<"R", "e", "m", "o", "t", "e", " ", "I", "/", "O", " ", "e", "r", "r", "o", "r">>,
    <<"D", "i", "s", "k", " ", "q", "u", "o", "t", "a", " ", "e", "x", "c", "e", "e", "d", "e", "d">>,
    <<"N", "o", " ", "m", "e", "d", "i", "u", "m", " ", "f", "o", "u", "n", "d">>,
    <<"W", "r", "o", "n", "g", " ", "m", "e", "d", "i", "u", "m", " ", "t", "y", "p", "e">>,
    <<"O", "p", "e", "r", "a", "t", "i", "o", "n", " ", "c", "a", "n", "c", "e", "l", "e", "d">>,
    <<"R", "e", "q", "u", "i", "r", "e", "d", " ", "k", "e", "y", " ", "n", "o", "t", " ", "a", "v", "a", "i", "l", "a", "b", "l", "e">>,
    <<"K", "e", "y", " ", "h", "a", "s", " ", "e", "x", "p", "i", "r", "e", "d">>,
    <<"K", "e", "y", " ", "h", "a", "s", " ", "b", "e", "e", "n", " ", "r", "e", "v", "o", "k", "e", "d">>,
    <<"K", "e", "y", " ", "w", "a", "s", " ", "r", "e", "j", "e", "c", "t", "e", "d", " ", "b", "y", " ", "s", "e", "r", "v", "i", "c", "e">>,
    <<"O", "w", "n", "e", "r", " ", "d", "i", "e", "d">>,
    <<"S", "t", "a", "t", "e", " ", "n", "o", "t", " ", "r", "e", "c", "o", "v", "e", "r", "a", "b", "l", "e">>,
    <<"O", "p", "e", "r", "a", "t", "i", "o", "n", " ", "n", "o", "t", " ", "p", "o", "s", "s", "i", "b", "l", "e", " ", "d", "u", "e", " ", "t", "o", " ", "R", "F", "-", "k", "i", "l", "l">>,
    <<"M", "e", "m", "o", "r", "y", " ", "p", "a", "g", "e", " ", "h", "a", "s", " ", "h", "a", "r", "d", "w", "a", "r", "e", " ", "e", "r", "r", "o", "r">>>>

strerror(e) ==
    IF e = 0 THEN <<"S", "u", "c", "c", "e", "s", "s">>
    ELSE IF e \in 1..Len(sys_errlist) /\ sys_errlist[e] # <<>> THEN sys_errlist[e]
    ELSE <<"U", "n", "k", "n", "o", "w", "n", " ", "e", "r", "r", "o", "r", " ">> \o itoa(e)

\* What initscr() prints when it cannot open the terminal named by TERM.
MsgTerminal == <<"E", "r", "r", "o", "r", " ", "o", "p", "e", "n", "i", "n", "g", " ", "t", "e", "r", "m", "i", "n", "a", "l", ":", " ">>
\* The names it prints: an unknown TERM, and "unknown" for an empty one.
Terms == {<<"n", "o", "s", "u", "c", "h", "t", "e", "r", "m">>, <<"u", "n", "k", "n", "o", "w", "n">>}

\* s is a prefix of t.
IsPrefix(s, t) == Len(s) <= Len(t) /\ SubSeq(t, 1, Len(s)) = s
\* s occurs in t.
Contains(t, s) == \E i \in 0..(Len(t) - Len(s)) : SubSeq(t, i + 1, i + Len(s)) = s

----------------------------------------------------------------------------
\* The render (do_render)

\* A wait status as waitpid() stores it: exit code << 8, or the signal number.
WIFEXITED(w) == w % 128 = 0
WEXITSTATUS(w) == (w \div 256) % 256
\* The child's exit(0) and exit(2), and its death by SIGKILL.
WStatuses == {0, 512, 9}

\* The calls of do_render that fail_if guards.
RenderFails == {"none", "pipe", "fork", "fdopen", "realloc", "waitpid"}

\* getline(): the length of the first line of a non-empty stream, its '\n' included.
LineEnd(s) ==
    IF \E i \in 1..Len(s) : s[i] = "\n"
    THEN CHOOSE i \in 1..Len(s) : s[i] = "\n" /\ \A j \in 1..(i - 1) : s[j] # "\n"
    ELSE Len(s)

\* The getline loop: the stream cut into lines, each keeping its terminator.
RECURSIVE ReadLines(_)
ReadLines(s) ==
    IF s = <<>> THEN <<>>
    ELSE LET e == LineEnd(s)
         IN  <<SubSeq(s, 1, e)>> \o ReadLines(SubSeq(s, e + 1, Len(s)))

\* Line 0 of an array of lines, as <<line>>, or <<>> when it has none.
First(lines) == IF Len(lines) > 0 THEN <<lines[1]>> ELSE <<>>

\* The branch on wstatus without the WIFEXITED test.
render_msg_nosignal(w) ==
    IF WEXITSTATUS(w) # 0 THEN MsgFailed
    ELSE <<>>

\* The branch on wstatus: the message for a render that did not exit with 0,
\* <<>> for one that did.
render_msg(w) ==
    IF ~WIFEXITED(w) THEN MsgTerminated
    ELSE IF WEXITSTATUS(w) # 0 THEN MsgFailed
    ELSE <<>>

\* The diagnostic built from the last captured line.
diagnostic_lastline(m, lines) ==
    IF Len(lines) > 0 THEN m \o ColonSpace \o lines[Len(lines)]
    ELSE m \o Newline

\* The two asprintf calls: "%s: %s" with the first captured line, or "%s\n".
diagnostic(m, lines) ==
    IF Len(lines) > 0 THEN m \o ColonSpace \o lines[1]
    ELSE m \o Newline

\* The parent's side of do_render, given what the child wrote (stream), how it
\* ended (w), which guarded call failed, if any, and the errno e it left.
\* exit: the viewer exits with G.err = err and G.msg = msg; otherwise
\* newContents is returned.  first is newContents[0] and wstatus the status
\* waitpid() stored, when there is one; forked tells whether the child ran,
\* and children counts the child forked and not reaped when do_render is left
\* (a waitpid() that fails with ECHILD finds the child gone).
do_render(stream, w, fail, e) ==
    LET lines == ReadLines(stream)
    IN  CASE fail = "pipe" ->
               [exit |-> TRUE, err |-> e, msg |-> MsgPipe,
                newContents |-> <<>>, first |-> <<>>, wstatus |-> <<>>,
                forked |-> FALSE, children |-> 0]
          [] fail = "fork" ->
               [exit |-> TRUE, err |-> e, msg |-> MsgFork,
                newContents |-> <<>>, first |-> <<>>, wstatus |-> <<>>,
                forked |-> FALSE, children |-> 0]
          [] fail = "fdopen" ->
               [exit |-> TRUE, err |-> e, msg |-> MsgFdopen,
                newContents |-> <<>>, first |-> <<>>, wstatus |-> <<>>,
                forked |-> TRUE, children |-> 1]
          [] fail = "realloc" ->
               [exit |-> TRUE, err |-> e, msg |-> MsgRead,
                newContents |-> <<>>, first |-> <<>>, wstatus |-> <<>>,
                forked |-> TRUE, children |-> 1]
          [] fail = "waitpid" ->
               [exit |-> TRUE, err |-> e, msg |-> MsgRead,
                newContents |-> <<>>, first |-> First(lines), wstatus |-> <<>>,
                forked |-> TRUE, children |-> IF e = ECHILD THEN 0 ELSE 1]
          [] OTHER ->
               IF render_msg(w) = <<>>
               THEN [exit |-> FALSE, err |-> 0, msg |-> <<>>,
                     newContents |-> lines, first |-> First(lines), wstatus |-> <<w>>,
                     forked |-> TRUE, children |-> 0]
               ELSE [exit |-> TRUE, err |-> -1,
                     msg |-> diagnostic(render_msg(w), lines),
                     newContents |-> <<>>, first |-> First(lines), wstatus |-> <<w>>,
                     forked |-> TRUE, children |-> 0]

\* Every way one call of do_render can end (realloc is only called for a line).
Renders ==
    {do_render(c[1], c[2], c[3], c[4]) :
        c \in {d \in Streams \X WStatuses \X RenderFails \X UNION {Errnos(f) : f \in RenderFails} :
                  /\ d[4] \in Errnos(d[3])
                  /\ d[3] = "realloc" => ReadLines(d[1]) # <<>>}}

----------------------------------------------------------------------------
\* Leaving the program

\* curses_cleanup writing the message before it leaves curses mode.
curses_cleanup_msgfirst(enabled, e, m) ==
    [tty |-> (IF e # 0 THEN <<"stderr">> ELSE <<>>)
             \o (IF enabled THEN <<"endwin">> ELSE <<>>),
     stderr |-> IF e > 0 THEN m \o ColonSpace \o strerror(e) \o Newline
                ELSE IF e < 0 THEN m
                ELSE <<>>]

\* curses_cleanup, the atexit handler: what it does to the terminal, in order,
\* and what it writes to stderr.
curses_cleanup(enabled, e, m) ==
    [tty |-> (IF enabled THEN <<"endwin">> ELSE <<>>)
             \o (IF e # 0 THEN <<"stderr">> ELSE <<>>),
     stderr |-> IF e > 0 THEN m \o ColonSpace \o strerror(e) \o Newline
                ELSE IF e < 0 THEN m
                ELSE <<>>]

\* exit(status) with G.err = e and G.msg = m: the atexit handler runs, if registered.
exit(status, e, m) ==
    LET c == IF atexit THEN curses_cleanup(cursesEnabled, e, m)
             ELSE [tty |-> <<>>, stderr |-> <<>>]
    IN  /\ pc' = "exited"
        /\ exitCode' = <<status % 256>>
        /\ err' = e
        /\ msg' = m
        /\ tty' = tty \o c.tty
        /\ stderr' = stderr \o c.stderr

----------------------------------------------------------------------------
\* The viewport and the reload (set_rowoff, do_reload)

\* set_rowoff without the clamp to the last page.
set_rowoff_noclamp(y, nlines, L) ==
    IF y < 0 THEN 0
    ELSE IF nlines <= L THEN 0
    ELSE y

set_rowoff(y, nlines, L) ==
    IF y < 0 THEN 0
    ELSE IF nlines <= L THEN 0
    ELSE IF y >= nlines - L THEN nlines - L
    ELSE y

\* The scan without its break: the last index where the lines differ.
RECURSIVE scan_nobreak(_, _, _)
scan_nobreak(old, new, i) ==
    IF i < Len(old) /\ i < Len(new)
    THEN LET r == scan_nobreak(old, new, i + 1)
         IN  IF r >= 0 THEN r ELSE IF old[i + 1] # new[i + 1] THEN i ELSE -1
    ELSE -1

\* The loop over the common prefix: the first index (from 0) where the lines
\* differ, or -1.
RECURSIVE scan(_, _, _)
scan(old, new, i) ==
    IF i < Len(old) /\ i < Len(new)
    THEN IF old[i + 1] # new[i + 1] THEN i ELSE scan(old, new, i + 1)
    ELSE -1

\* focus moving to the old length, not the new one, on a change at the tail.
focus_oldlen(old, new, off) ==
    LET r == scan(old, new, 0)
    IN  IF r < 0
        THEN IF old = <<>> THEN 0
             ELSE IF Len(old) # Len(new) THEN Len(old)
             ELSE off
        ELSE r

\* focus without the case of the first load.
focus_nofirst(old, new, off) ==
    LET r == scan(old, new, 0)
    IN  IF r < 0
        THEN IF Len(old) # Len(new) THEN Len(new)
             ELSE off
        ELSE r

\* do_reload's local rowoff: where the focus should move.
focus(old, new, off) ==
    LET r == scan(old, new, 0)
    IN  IF r < 0
        THEN IF old = <<>> THEN 0              \* !G.contents: first load
             ELSE IF Len(old) # Len(new) THEN Len(new)
             ELSE off
        ELSE r

\* How a new output relates to the old contents.
Min(a, b) == IF a < b THEN a ELSE b
Relation(old, new) ==
    IF \E i \in 1..Min(Len(old), Len(new)) : old[i] # new[i] THEN "differ"
    ELSE IF Len(old) < Len(new) THEN "append"
    ELSE IF Len(old) > Len(new) THEN "truncate"
    ELSE "same"

\* The ends of a queue q: what is left when its first keys have been read.
Suffixes(q) == {SubSeq(q, i, Len(q)) : i \in 1..(Len(q) + 1)}

\* do_reload; main goes on at next when the render succeeds, with a new pad
\* of nlines + 1 rows and COLS columns.  The render child has the viewer's
\* standard input: what it reads of the typed keys is gone.
do_reload(next) ==
    \E r \in Renders :
        /\ stdin' \in (IF r.forked THEN Suffixes(stdin) ELSE {stdin})
        /\ held' = held
        /\ first' = r.first
        /\ wstatus' = r.wstatus
        /\ reloads' = reloads + 1
        /\ children' = children + r.children
        /\ IF r.exit
           THEN /\ exit(-1, r.err, r.msg)
                /\ UNCHANGED <<contents, pad, rowoff, change>>
           ELSE /\ contents' = r.newContents
                /\ pad' = <<Len(r.newContents) + 1, COLS>>
                /\ rowoff' = set_rowoff(focus(contents, r.newContents, rowoff),
                                        Len(r.newContents), LINES)
                /\ change' = <<Relation(contents, r.newContents), Len(contents)>>
                /\ pc' = next
                /\ UNCHANGED <<err, msg, tty, stderr, exitCode>>

----------------------------------------------------------------------------
\* Keys (handle_key)

\* The integer 0, the initial value of the static last_key.
NUL == "NUL"
\* What getch() returns; "x" stands for every key without a case of its own.
Keys == {"j", "KEY_DOWN", "k", "KEY_UP", "KEY_ENTER", "u", "KEY_NPAGE",
         "d", "KEY_PPAGE", "g", "G", "q", "x"}

\* handle_key moving by whole pages where it should move by half pages.
handle_key_fullpage(k, off, nlines, L, lk) ==
    CASE k \in {"j", "KEY_DOWN"} ->
           [exit |-> FALSE, rowoff |-> set_rowoff(off + 1, nlines, L), last_key |-> lk,
            jump |-> FALSE]
      [] k \in {"k", "KEY_UP", "KEY_ENTER"} ->
           [exit |-> FALSE, rowoff |-> set_rowoff(off - 1, nlines, L), last_key |-> lk,
            jump |-> FALSE]
      [] k \in {"u", "KEY_NPAGE"} ->
           [exit |-> FALSE, rowoff |-> set_rowoff(off - L, nlines, L), last_key |-> lk,
            jump |-> FALSE]
      [] k \in {"d", "KEY_PPAGE"} ->
           [exit |-> FALSE, rowoff |-> set_rowoff(off + L, nlines, L), last_key |-> lk,
            jump |-> FALSE]
      [] k = "g" ->
           IF lk = "g"
           THEN [exit |-> FALSE, rowoff |-> set_rowoff(0, nlines, L), last_key |-> NUL,
                 jump |-> TRUE]
           ELSE [exit |-> FALSE, rowoff |-> off, last_key |-> k,
            jump |-> FALSE]
      [] k = "G" ->
           [exit |-> FALSE, rowoff |-> set_rowoff(nlines, nlines, L), last_key |-> lk,
            jump |-> FALSE]
      [] k = "q" ->
           [exit |-> TRUE, rowoff |-> off, last_key |-> lk,
            jump |-> FALSE]
      [] OTHER ->
           [exit |-> FALSE, rowoff |-> off, last_key |-> k,
            jump |-> FALSE]

\* handle_key leaving "gg" pending after it has jumped to the top.
handle_key_nodisarm(k, off, nlines, L, lk) ==
    CASE k \in {"j", "KEY_DOWN"} ->
           [exit |-> FALSE, rowoff |-> set_rowoff(off + 1, nlines, L), last_key |-> lk,
            jump |-> FALSE]
      [] k \in {"k", "KEY_UP", "KEY_ENTER"} ->
           [exit |-> FALSE, rowoff |-> set_rowoff(off - 1, nlines, L), last_key |-> lk,
            jump |-> FALSE]
      [] k \in {"u", "KEY_NPAGE"} ->
           [exit |-> FALSE, rowoff |-> set_rowoff(off - L \div 2, nlines, L), last_key |-> lk,
            jump |-> FALSE]
      [] k \in {"d", "KEY_PPAGE"} ->
           [exit |-> FALSE, rowoff |-> set_rowoff(off + L \div 2, nlines, L), last_key |-> lk,
            jump |-> FALSE]
      [] k = "g" ->
           IF lk = "g"
           THEN [exit |-> FALSE, rowoff |-> set_rowoff(0, nlines, L), last_key |-> lk,
                 jump |-> TRUE]
           ELSE [exit |-> FALSE, rowoff |-> off, last_key |-> k,
            jump |-> FALSE]
      [] k = "G" ->
           [exit |-> FALSE, rowoff |-> set_rowoff(nlines, nlines, L), last_key |-> lk,
            jump |-> FALSE]
      [] k = "q" ->
           [exit |-> TRUE, rowoff |-> off, last_key |-> lk,
            jump |-> FALSE]
      [] OTHER ->
           [exit |-> FALSE, rowoff |-> off, last_key |-> k,
            jump |-> FALSE]

\* handle_key(k) with G.rowoff = off, G.nlines = nlines, LINES = L and
\* last_key = lk: whether it exits, the rowoff and last_key it leaves, and
\* whether it ran the jump to the top, set_rowoff(0).
handle_key(k, off, nlines, L, lk) ==
    CASE k \in {"j", "KEY_DOWN"} ->
           [exit |-> FALSE, rowoff |-> set_rowoff(off + 1, nlines, L), last_key |-> lk,
            jump |-> FALSE]
      [] k \in {"k", "KEY_UP", "KEY_ENTER"} ->
           [exit |-> FALSE, rowoff |-> set_rowoff(off - 1, nlines, L), last_key |-> lk,
            jump |-> FALSE]
      [] k \in {"u", "KEY_NPAGE"} ->
           [exit |-> FALSE, rowoff |-> set_rowoff(off - L \div 2, nlines, L), last_key |-> lk,
            jump |-> FALSE]
      [] k \in {"d", "KEY_PPAGE"} ->
           [exit |-> FALSE, rowoff |-> set_rowoff(off + L \div 2, nlines, L), last_key |-> lk,
            jump |-> FALSE]
      [] k = "g" ->
           IF lk = "g"
           THEN [exit |-> FALSE, rowoff |-> set_rowoff(0, nlines, L), last_key |-> NUL,
                 jump |-> TRUE]
           ELSE [exit |-> FALSE, rowoff |-> off, last_key |-> k,
            jump |-> FALSE]
      [] k = "G" ->
           [exit |-> FALSE, rowoff |-> set_rowoff(nlines, nlines, L), last_key |-> lk,
            jump |-> FALSE]
      [] k = "q" ->
           [exit |-> TRUE, rowoff |-> off, last_key |-> lk,
            jump |-> FALSE]
      [] OTHER ->
           [exit |-> FALSE, rowoff |-> off, last_key |-> k,
            jump |-> FALSE]

----------------------------------------------------------------------------
\* inotify events (handle_event)

\* An event's mask is the set of its bits.
IN_MODIFY == "IN_MODIFY"
IN_CLOSE_WRITE == "IN_CLOSE_WRITE"
IN_DELETE_SELF == "IN_DELETE_SELF"
IN_IGNORED == "IN_IGNORED"
Masks == {{IN_MODIFY}, {IN_CLOSE_WRITE}, {IN_DELETE_SELF}, {IN_IGNORED}}

\* What one read() of the inotify descriptor can return: IN_DELETE_SELF is the
\* last event of the file, and only the watch's IN_IGNORED follows it.
Batches ==
    {b \in SeqsUpTo(Masks, MaxBatch) :
        /\ b # <<>>
        /\ b[1] # {IN_IGNORED}
        /\ \A i \in 1..(Len(b) - 1) :
              /\ b[i] = {IN_DELETE_SELF} <=> b[i + 1] = {IN_IGNORED}
              /\ b[i] # {IN_IGNORED}}

----------------------------------------------------------------------------
\* main

Init ==
    /\ pc = "main"
    /\ LINES = 0
    /\ COLS = 0
    /\ contents = <<>>
    /\ pad = <<>>
    /\ rowoff = 0
    /\ last_key = NUL
    /\ err = 0
    /\ msg = <<>>
    /\ cursesEnabled = FALSE
    /\ atexit = FALSE
    /\ buf = <<>>
    /\ p = 1
    /\ key = NUL
    /\ first = <<>>
    /\ wstatus = <<>>
    /\ reloads = 0
    /\ change = <<"none", 0>>
    /\ tty = <<>>
    /\ stderr = <<>>
    /\ exitCode = <<>>
    /\ children = 0
    /\ screen = <<>>
    /\ fds = {}
    /\ stdin = <<>>
    /\ held = <<>>
    /\ winch = <<>>
    /\ ungot = 0
    /\ touched = {}
    /\ grun = <<0, 0>>

\* usage(): what it prints.
usage(progname) == MsgUsage1 \o progname \o MsgUsage2

\* curses_init(): initscr() sets LINES and COLS to the terminal's size, makes
\* stdscr with every row touched, and the terminal enters curses mode; or
\* initscr() cannot open the terminal: it prints that and ends the process
\* with status 1 itself.
curses_init ==
    \/ /\ tty' = tty \o <<"initscr">>
       /\ cursesEnabled' = TRUE
       /\ LINES' \in 1..MaxLINES
       /\ COLS' \in 1..MaxCOLS
       /\ touched' = 0..(LINES' - 1)
       /\ UNCHANGED <<stderr, exitCode>>
    \/ /\ \E t \in Terms : stderr' = stderr \o MsgTerminal \o t \o <<".", "\n">>
       /\ tty' = tty \o <<"stderr">>
       /\ exitCode' = <<1>>
       /\ UNCHANGED <<cursesEnabled, LINES, COLS, touched>>

\* main up to the first reload: a setup failure prints its message and returns
\* -1 before curses starts; otherwise curses_init runs and, when it returns,
\* the handler is registered.
Setup ==
    /\ pc = "main"
    /\ \E how \in {"usage", "inotify_init1", "inotify_add_watch", "ok"} :
          IF how = "ok"
          THEN /\ curses_init
               /\ IF exitCode' = <<>>
                  THEN atexit' = TRUE /\ pc' = "reload"
                  ELSE atexit' = atexit /\ pc' = "exited"
          ELSE /\ \E e \in Errnos(how) :
                     stderr' = stderr \o
                       (CASE how = "usage" -> usage(Progname)
                          [] how = "inotify_init1" ->
                               MsgInotifyInit \o ColonSpace \o strerror(e) \o Newline
                          [] OTHER ->
                               MsgWatch \o File \o ColonSpace \o strerror(e) \o Newline)
               /\ tty' = tty \o <<"stderr">>
               /\ exitCode' = <<(-1) % 256>>
               /\ pc' = "exited"
               /\ UNCHANGED <<LINES, COLS, cursesEnabled, atexit, touched>>
    /\ UNCHANGED <<contents, pad, rowoff, last_key, err, msg, buf, p, key, first,
                   wstatus, reloads, change, children, screen, fds, stdin, held,
                   winch, ungot, grun>>

\* The forced reload before the loop.
FirstReload ==
    /\ pc = "reload"
    /\ do_reload("draw")
    /\ UNCHANGED <<LINES, COLS, last_key, cursesEnabled, atexit, buf, p, key, screen,
                   fds, winch, ungot, touched, grun>>

\* prefresh(pad, pminrow, 0, 0, 0, smaxrow, smaxcol) on a screen of L rows and
\* C columns: whether it puts the pad on the screen.  curses trims the
\* rectangle to the rows and columns the pad has from pminrow on, and fails if
\* what is left does not lie on the screen.
prefresh(w, pminrow, smaxrow, smaxcol, L, C) ==
    LET over(last, have) == IF last > have - 1 THEN last - (have - 1) ELSE 0
        row == smaxrow - over(pminrow + smaxrow, w[1])
        col == smaxcol - over(smaxcol, w[2])
    IN  /\ w # <<>>
        /\ row < L
        /\ col < C
        /\ row >= 0
        /\ col >= 0

\* resize_term() on stdscr of L rows and C columns, its rows T touched, for a
\* terminal of size s = <<rows, columns>>: the rows touched afterwards.  A
\* change of width touches every row; with the width kept, the rows added are
\* touched and the rows that remain stay as they were.
resize_term(T, L, C, s) ==
    IF s[2] # C
    THEN 0..(s[1] - 1)
    ELSE {r \in T : r < s[1]} \cup (L..(s[1] - 1))

\* draw_screen(), after which the loop clears fds and waits in select() again;
\* mid is the terminal's size at a SIGWINCH that comes between refresh() and
\* prefresh() (<<>>: none comes).  erase() and refresh() leave no row of
\* stdscr touched, and refresh() is where curses takes in a SIGWINCH that came
\* while the viewer was not in select(): LINES and COLS get the terminal's
\* size before prefresh uses them, one more KEY_RESIZE is held for getch(), and
\* stdscr is resized.  prefresh, called with that LINES - 1 and COLS, shows
\* nothing when the pad, made by the last reload, has more columns than COLS;
\* when it shows the pad it takes in the SIGWINCH that came after refresh()
\* in the same way, and when it does not, that SIGWINCH stays for the next
\* call that looks.
draw_screen(mid) ==
    /\ pc = "draw"
    /\ LET seen == winch # <<>>
           size == IF seen THEN winch ELSE <<LINES, COLS>>
           rows == IF seen THEN resize_term({}, LINES, COLS, winch) ELSE {}
           n == IF seen THEN ungot + 1 ELSE ungot
           shown == prefresh(pad, rowoff, size[1] - 1, size[2], size[1], size[2])
       IN  /\ screen' = IF shown THEN <<rowoff>> ELSE <<>>
           /\ IF mid # <<>> /\ shown
              THEN /\ LINES' = mid[1]
                   /\ COLS' = mid[2]
                   /\ winch' = <<>>
                   /\ ungot' = n + 1
                   /\ touched' = resize_term(rows, size[1], size[2], mid)
              ELSE /\ LINES' = size[1]
                   /\ COLS' = size[2]
                   /\ winch' = mid
                   /\ ungot' = n
                   /\ touched' = rows
    /\ pc' = "wait"
    /\ buf' = <<>>
    /\ p' = 1
    /\ key' = NUL
    /\ reloads' = 0
    /\ change' = <<"none", 0>>
    /\ fds' = {}
    /\ UNCHANGED <<contents, pad, rowoff, last_key, err, msg, cursesEnabled, atexit,
                   first, wstatus, tty, stderr, exitCode, children, stdin, held, grun>>

\* The failure of select() taken for the end of the run: main returns 0.
SelectFail_return0 ==
    /\ pc = "wait"
    /\ exit(0, err, msg)
    /\ UNCHANGED <<LINES, COLS, contents, pad, rowoff, last_key, cursesEnabled, atexit,
                   buf, p, key, first, wstatus, reloads, change, children, screen, env>>

\* select() fails: the loop ends and fail_if(ret < 0, ...) exits.
SelectFail ==
    /\ pc = "wait"
    /\ \E errno \in Errnos("select") : exit(-1, errno, MsgSelect)
    /\ UNCHANGED <<LINES, COLS, contents, pad, rowoff, last_key, cursesEnabled, atexit,
                   buf, p, key, first, wstatus, reloads, change, children, screen, env>>

\* read() on the inotify descriptor fills buf with a batch of events.
ReadBatch ==
    /\ pc = "wait"
    /\ \E b \in Batches : buf' = b
    /\ p' = 1
    /\ pc' = "events"
    /\ UNCHANGED <<LINES, COLS, contents, pad, rowoff, last_key, err, msg,
                   cursesEnabled, atexit, key, first, wstatus, reloads, change, tty,
                   stderr, exitCode, children, screen>>

\* read() returns len <= 0: -1 with errno set, or 0 with errno left as it was.
ReadNothing ==
    /\ pc = "wait"
    /\ \E errno \in Errnos("read") \cup {0} : exit(-1, errno, MsgInotifyRead)
    /\ UNCHANGED <<LINES, COLS, contents, pad, rowoff, last_key, cursesEnabled, atexit,
                   buf, p, key, first, wstatus, reloads, change, children, screen>>

\* The inotify descriptor is ready and read() returns a batch.
ReadEvents == ReadBatch /\ UNCHANGED env

\* The inotify descriptor is ready and read() fails.
ReadFail == ReadNothing /\ UNCHANGED env

\* handle_event reloading for the first event of a batch only.
handle_event_coalesce ==
    /\ pc = "events"
    /\ IF IN_DELETE_SELF \in buf[p]
       THEN /\ exit(0, err, msg)
            /\ UNCHANGED <<contents, pad, rowoff, first, wstatus, reloads, change, p,
                           children, stdin, held>>
       ELSE IF reloads = 0
       THEN /\ do_reload(IF p = Len(buf) THEN "draw" ELSE "events")
            /\ p' = IF pc' = "exited" THEN p ELSE p + 1
       ELSE /\ pc' = IF p = Len(buf) THEN "draw" ELSE "events"
            /\ p' = p + 1
            /\ UNCHANGED <<contents, pad, rowoff, first, wstatus, reloads, change, err,
                           msg, tty, stderr, exitCode, children, stdin, held>>
    /\ UNCHANGED <<LINES, COLS, last_key, cursesEnabled, atexit, buf, key, screen, fds,
                   winch, ungot, touched, grun>>

\* One turn of the for loop over buf: handle_event on the event at p.  It
\* returns 1 on IN_DELETE_SELF and main returns 0; otherwise it reloads and the
\* loop moves p on, leaving the loop for draw_screen after the last event.
handle_event ==
    /\ pc = "events"
    /\ IF IN_DELETE_SELF \in buf[p]
       THEN /\ exit(0, err, msg)
            /\ UNCHANGED <<contents, pad, rowoff, first, wstatus, reloads, change, p,
                           children, stdin, held>>
       ELSE /\ do_reload(IF p = Len(buf) THEN "draw" ELSE "events")
            /\ p' = IF pc' = "exited" THEN p ELSE p + 1
    /\ UNCHANGED <<LINES, COLS, last_key, cursesEnabled, atexit, buf, key, screen, fds,
                   winch, ungot, touched, grun>>

\* handle_key(getch()) when getch() returns k.
Key(k) ==
    /\ pc = "wait"
    /\ LET r == handle_key(k, rowoff, Len(contents), LINES, last_key)
       IN  /\ key' = k
           /\ rowoff' = r.rowoff
           /\ last_key' = r.last_key
           /\ IF r.exit
              THEN exit(0, err, msg)
              ELSE /\ pc' = "draw"
                   /\ UNCHANGED <<err, msg, tty, stderr, exitCode>>
    /\ UNCHANGED <<contents, pad, cursesEnabled, atexit, buf, p, first, wstatus,
                   reloads, change, children, screen>>

\* Standard input is ready: handle_key(getch()), curses holding no KEY_RESIZE.
KeyPress ==
    /\ ungot = 0
    /\ \E k \in Keys : Key(k)
    /\ UNCHANGED <<LINES, COLS, env>>

Next ==
    \/ Setup
    \/ FirstReload
    \/ draw_screen(<<>>)
    \/ SelectFail
    \/ ReadEvents
    \/ ReadFail
    \/ handle_event
    \/ KeyPress

Spec == Init /\ [][Next]_vars

----------------------------------------------------------------------------
\* The terminal is resized

\* What getch() returns once curses has taken in a new terminal size.
KEY_RESIZE == "KEY_RESIZE"

\* A SIGWINCH while the viewer is in curses mode and the signal interrupts no
\* call of main (at "wait": after select() has returned, before what follows):
\* curses notes it.  The terminal has got another size, or has the size it had
\* (a change there and back, or the bare signal).  (The signal interrupting
\* select() is SelectFail; interrupting waitpid(), a failure of do_render.)
Winch ==
    /\ pc \in {"reload", "events", "draw", "wait"}
    /\ ungot < MaxUngot
    /\ \E h \in 1..MaxLINES, w \in 1..MaxCOLS : winch # <<h, w>> /\ winch' = <<h, w>>
    /\ UNCHANGED <<prog, fds, stdin, held, ungot, touched, grun>>

\* draw_screen() with a SIGWINCH between its refresh() and its prefresh().
draw_screen_winch ==
    /\ ungot + (IF winch # <<>> THEN 1 ELSE 0) < MaxUngot
    /\ \E h \in 1..MaxLINES, w \in 1..MaxCOLS : draw_screen(<<h, w>>)

\* Standard input is ready and getch() returns a KEY_RESIZE that curses holds;
\* handle_key has no case of its own for it.  getch() refreshes stdscr first
\* if a row of it is touched, and that refresh takes in a SIGWINCH as
\* draw_screen's does: the KEY_RESIZE returned is then replaced by another.
Resize ==
    /\ ungot > 0
    /\ Key(KEY_RESIZE)
    /\ IF touched # {} /\ winch # <<>>
       THEN /\ LINES' = winch[1]
            /\ COLS' = winch[2]
            /\ winch' = <<>>
            /\ ungot' = ungot
            /\ touched' = resize_term({}, LINES, COLS, winch)
       ELSE /\ ungot' = ungot - 1
            /\ touched' = {}
            /\ UNCHANGED <<LINES, COLS, winch>>
    /\ UNCHANGED <<fds, stdin, held, grun>>

NextResize ==
    \/ Setup
    \/ FirstReload
    \/ draw_screen(<<>>)
    \/ draw_screen_winch
    \/ SelectFail
    \/ KeyPress
    \/ Winch
    \/ Resize

\* The viewer on a terminal that can be resized, keys being typed and the
\* watched file left alone.
SpecResize == Init /\ [][NextResize]_vars

NextUnattended ==
    \/ Setup
    \/ FirstReload
    \/ draw_screen(<<>>)
    \/ draw_screen_winch
    \/ SelectFail
    \/ ReadEvents
    \/ ReadFail
    \/ handle_event
    \/ Winch

\* The viewer on a terminal that can be resized, the watched file changing
\* and nobody typing: select() never reports standard input, so getch() is
\* not called and curses keeps the KEY_RESIZE it holds.
SpecUnattended == Init /\ [][NextUnattended]_vars

----------------------------------------------------------------------------
\* Runs of 'g' keys

\* handle_key(getch()) with the run of consecutive 'g' keys counted: its length
\* and the jumps to the top in it.  A run that begins while "gg" is pending is
\* not counted (-1), and no run is followed beyond MaxRun keys.
KeyRun ==
    /\ \E k \in Keys :
          /\ k = "g" => grun[1] < MaxRun
          /\ Key(k)
          /\ LET r == handle_key(k, rowoff, Len(contents), LINES, last_key)
             IN  grun' = IF k # "g" THEN <<0, 0>>
                         ELSE IF grun[1] < 0 THEN grun
                         ELSE IF grun[1] = 0 /\ last_key = "g" THEN <<-1, 0>>
                         ELSE <<grun[1] + 1, grun[2] + (IF r.jump THEN 1 ELSE 0)>>
    /\ UNCHANGED <<LINES, COLS, fds, stdin, held, winch, ungot, touched>>

NextKeys ==
    \/ Setup
    \/ FirstReload
    \/ draw_screen(<<>>)
    \/ SelectFail
    \/ KeyRun

\* The viewer with the watched file left alone, so that the key events of a
\* run are consecutive events of the loop.
SpecKeys == Init /\ [][NextKeys]_vars

----------------------------------------------------------------------------
\* The keyboard as a queue, and select()'s answer

watchfd == "watchfd"
STDIN_FILENO == "stdin"
\* The escape character.
ESC == "ESC"
\* The bytes the user types in this specification.
TypedKeys == {"j", ESC}

\* The user types a key; it waits in the terminal's queue.
TypeKey ==
    /\ pc # "exited"
    /\ Len(held) + Len(stdin) < MaxPending
    /\ \E k \in TypedKeys : stdin' = Append(stdin, k)
    /\ UNCHANGED <<prog, fds, held, winch, ungot, touched, grun>>

\* getch() with the keypad on, curses holding the bytes h and the terminal's
\* queue being q: it returns the oldest byte, a held one first.  After ESC it
\* reads on to see whether a key's sequence follows: the byte behind ESC, no
\* such sequence beginning with a byte of TypedKeys, is then held.
getch(h, q) ==
    LET all == h \o q
        rest == IF h # <<>> THEN q ELSE Tail(q)
    IN  IF Head(all) = ESC /\ rest # <<>>
        THEN [key |-> ESC, held |-> <<Head(rest)>>, stdin |-> Tail(rest)]
        ELSE [key |-> Head(all), held |-> <<>>, stdin |-> rest]

\* The body of the loop, select() having left f in fds: the inotify descriptor
\* is tested first, and standard input only if it is not set.
dispatch(f) ==
    IF watchfd \in f
    THEN /\ ReadBatch \/ ReadNothing
         /\ UNCHANGED <<LINES, COLS, stdin, held, winch, ungot, touched, grun>>
    ELSE /\ LET g == getch(held, stdin)
            IN  /\ Key(g.key)
                /\ held' = g.held
                /\ stdin' = g.stdin
         /\ UNCHANGED <<LINES, COLS, winch, ungot, touched, grun>>

\* select() returns with the descriptors that are ready: standard input when
\* a byte waits in the terminal's queue (it does not see what curses holds),
\* the inotify descriptor when a batch has arrived; with neither it goes on
\* waiting.
Turn ==
    /\ pc = "wait"
    /\ \E f \in (SUBSET {watchfd, STDIN_FILENO}) \ {{}} :
          /\ STDIN_FILENO \in f <=> stdin # <<>>
          /\ fds' = f
          /\ dispatch(f)

NextInput ==
    \/ Setup
    \/ FirstReload
    \/ draw_screen(<<>>)
    \/ SelectFail
    \/ handle_event
    \/ Turn
    \/ TypeKey

\* The viewer with its keyboard: keys are typed at any time and wait in the
\* terminal's queue, which getch() and the render child read from.
SpecInput == Init /\ [][NextInput]_vars

----------------------------------------------------------------------------
\* Properties

Max(a, b) == IF a > b THEN a ELSE b

\* The offset rule of the viewport: a proposed row clamped for n lines and height H.
Clamp(y, n, H) == IF n <= H THEN 0 ELSE Max(0, Min(y, n - H))

\* A step in which do_reload ran to its end (the render succeeded).
Reloaded == pc \in {"reload", "events"} /\ pc' \in {"events", "draw"}
\* The same, the forced first reload left out.
ReloadedAgain == pc = "events" /\ pc' \in {"events", "draw"}
\* The state right after a reload that was not the first.
AfterReload == pc \in {"events", "draw"} /\ buf # <<>> /\ reloads > 0

\* old is a strict prefix of new.
StrictPrefix(old, new) == Len(old) < Len(new) /\ SubSeq(new, 1, Len(old)) = old

\* C1: once curses is up, the offset is within [0, max(0, nlines - LINES)]
\* in every state, so after every reload and every navigation command; it is 0
\* whenever the lines fit the screen and whenever there are none.
C1_OffsetInRange ==
    LINES >= 1 =>
        /\ 0 <= rowoff
        /\ rowoff <= Max(0, Len(contents) - LINES)
        /\ Len(contents) <= LINES => rowoff = 0

\* C1 witness: a reload has left the offset on the last page of a buffer longer
\* than the screen.
C1_Witness ==
    /\ AfterReload
    /\ Len(contents) > LINES
    /\ rowoff = Len(contents) - LINES

\* C2 as stated: after a reload (not the first) that only appended lines, the
\* offset is the old length, clamped.
C2_AppendShowsOldLength ==
    [][(ReloadedAgain /\ StrictPrefix(contents, contents'))
         => rowoff' = Clamp(Len(contents), Len(contents'), LINES)]_vars

\* C2 amended: after a reload (not the first) that only appended lines, the
\* offset is the new length, clamped: the last page, max(0, new.length - LINES);
\* and 0 when the old contents were empty.
C2_AppendShowsTail ==
    [][(ReloadedAgain /\ StrictPrefix(contents, contents'))
         => rowoff' = IF contents = <<>> THEN 0
                      ELSE Clamp(Len(contents'), Len(contents'), LINES)]_vars

\* C2 witness: lines were appended to a non-empty buffer and the offset is on
\* the last page, past the first new line.
C2_Witness ==
    /\ AfterReload
    /\ change[1] = "append"
    /\ change[2] > 0
    /\ rowoff = Len(contents) - LINES
    /\ rowoff > change[2]

\* C3 as stated: every key other than 'g' resets the pending state of "gg", so
\* that g, x, g does not jump to the top.
C3_OtherKeyDisarms ==
    [][(pc = "wait" /\ pc' = "draw" /\ key' # "g") => last_key' # "g"]_vars

\* A batch with no removal notification in it.
NoRemoval(b) == \A i \in 1..Len(b) : IN_DELETE_SELF \notin b[i]

\* C4 as stated: a batch with no removal notification causes at most one reload.
C4_OneReloadPerBatch ==
    (buf # <<>> /\ NoRemoval(buf)) => reloads <= 1

\* C4 amended: a batch with no removal notification causes one reload for each
\* of its notifications, in order, up to the first render that fails: every
\* notification handled so far has reloaded once, and the batch is left for the
\* redraw only with as many reloads as it has notifications.
C4_OneReloadPerEvent ==
    (buf # <<>> /\ NoRemoval(buf)) =>
        /\ pc = "events" => reloads = p - 1
        /\ pc = "draw" => (p = Len(buf) + 1 /\ reloads = Len(buf))
        /\ pc = "exited" => reloads = p

\* C4 witness: a batch of two notifications has been handled with two reloads.
C4_Witness ==
    /\ pc = "draw"
    /\ Len(buf) = 2
    /\ NoRemoval(buf)
    /\ reloads = 2

\* C5 as stated: a batch holding a removal notification, wherever it stands,
\* causes no reload and ends the viewer with exit code 0.
C5_RemovalAnywhere ==
    (buf # <<>> /\ ~NoRemoval(buf)) =>
        /\ reloads = 0
        /\ pc \in {"events", "exited"}
        /\ pc = "exited" => exitCode = <<0>>

\* The smallest index (from 0) in the common range where old and new differ.
FirstDifference(old, new) ==
    CHOOSE k \in 0..(Min(Len(old), Len(new)) - 1) :
        /\ old[k + 1] # new[k + 1]
        /\ \A j \in 0..(k - 1) : old[j + 1] = new[j + 1]

\* C6: after a reload whose output differs from the old contents inside their
\* common range, the offset is the smallest differing index, clamped.
C6_FocusOnFirstDifference ==
    [][(Reloaded /\ Relation(contents, contents') = "differ")
         => rowoff' = Clamp(FirstDifference(contents, contents'),
                            Len(contents'), LINES)]_vars

\* C6 witness: a reload found a difference and put the offset on it, strictly
\* between the top and the last page.
C6_Witness ==
    /\ AfterReload
    /\ change[1] = "differ"
    /\ 0 < rowoff
    /\ rowoff < Len(contents) - LINES

\* C7 as stated: a reload whose output is identical to the contents leaves the
\* offset where it was, whatever has happened since the offset was set.
C7_SameKeepsOffset ==
    [][(Reloaded /\ contents' = contents) => rowoff' = rowoff]_vars

\* C8: when the render exited with a nonzero code after writing a line, the
\* viewer has exited with a nonzero code and its message holds that first line.
C8_FailedShowsFirstLine ==
    (/\ pc = "exited"
     /\ wstatus # <<>>
     /\ WIFEXITED(wstatus[1])
     /\ WEXITSTATUS(wstatus[1]) # 0
     /\ first # <<>>)
    => /\ exitCode \notin {<<>>, <<0>>}
       /\ Contains(stderr, first[1])

\* C8 witness: the render exited with code 2 after the line "a\n", and the
\* message on stderr holds that line.
C8_Witness ==
    /\ pc = "exited"
    /\ wstatus = <<512>>
    /\ first = << <<"a", "\n">> >>
    /\ Contains(stderr, <<"a", "\n">>)

\* The terminal is in curses mode just before the i-th thing that happened to it.
InCursesBefore(i) ==
    \E j \in 1..(i - 1) :
        /\ tty[j] = "initscr"
        /\ \A k \in (j + 1)..(i - 1) : tty[k] # "endwin"

\* C9: nothing is written to stderr while the terminal is in curses mode, and
\* an exit after curses started has left curses mode.
C9_CleanupBeforeMessage ==
    /\ \A i \in 1..Len(tty) : tty[i] = "stderr" => ~InCursesBefore(i)
    /\ (pc = "exited" /\ cursesEnabled) => ~InCursesBefore(Len(tty) + 1)

\* C9 witness: a fatal exit after curses started: curses was left, then the
\* message was written.
C9_Witness ==
    /\ pc = "exited"
    /\ err # 0
    /\ stderr # <<>>
    /\ tty = <<"initscr", "endwin", "stderr">>

\* A step in which do_render ran.
Rendered == reloads' = reloads + 1

\* C10: a render that was reaped ends in one of three ways.  Exit code 0: the
\* captured lines are the new contents and the viewer goes on.  Any other exit
\* code: the viewer exits nonzero with the contents untouched and a message
\* that starts "render failed".  A signal: the same, with a message that starts
\* "render terminated".
C10_RenderOutcomes ==
    [][(Rendered /\ wstatus' # <<>>) =>
         LET w == wstatus'[1]
         IN  IF WIFEXITED(w) /\ WEXITSTATUS(w) = 0
             THEN /\ pc' # "exited"
                  /\ exitCode' = <<>>
                  /\ stderr' = <<>>
                  /\ First(contents') = first'
             ELSE /\ pc' = "exited"
                  /\ exitCode' \notin {<<>>, <<0>>}
                  /\ contents' = contents
                  /\ IF WIFEXITED(w)
                     THEN /\ IsPrefix(MsgFailed, stderr')
                          /\ ~IsPrefix(MsgTerminated, stderr')
                     ELSE /\ IsPrefix(MsgTerminated, stderr')
                          /\ ~IsPrefix(MsgFailed, stderr')]_vars

\* C10 witness: the render of a reload was killed by a signal; the viewer has
\* exited with the message "render terminated" and the contents it had.
C10_Witness ==
    /\ pc = "exited"
    /\ wstatus = <<9>>
    /\ contents # <<>>
    /\ IsPrefix(MsgTerminated, stderr)

\* C11: the viewer exits with code 0, 1 or 255.  After 'q' it has exited with
\* code 0, no message, and no reload in that turn of the loop; code 0 comes
\* only from 'q' or from the removal notification; an exit with G.err set or
\* with a message written has a code that is not 0: 1 when initscr() could not
\* open the terminal, 255 otherwise.
C11_QuitAndExitCodes ==
    pc = "exited" =>
        /\ exitCode \in {<<0>>, <<1>>, <<255>>}
        /\ exitCode = <<1>> <=> (~cursesEnabled /\ IsPrefix(MsgTerminal, stderr))
        /\ key = "q" => (exitCode = <<0>> /\ stderr = <<>> /\ reloads = 0 /\ buf = <<>>)
        /\ exitCode = <<0>> =>
              /\ key = "q" \/ (buf # <<>> /\ IN_DELETE_SELF \in buf[p])
              /\ err = 0
              /\ stderr = <<>>
        /\ (err # 0 \/ stderr # <<>>) => exitCode \in {<<1>>, <<255>>}

\* C11 witness: 'q' was pressed with lines shown, the offset moved and "gg"
\* pending; the viewer exited with code 0 and no message.
C11_Witness ==
    /\ pc = "exited"
    /\ key = "q"
    /\ exitCode = <<0>>
    /\ stderr = <<>>
    /\ rowoff > 0
    /\ last_key = "g"

\* C12 as stated: after every reload but the first in which the lines up to the
\* shorter length agree and the lengths differ, the offset is the last page,
\* max(0, new length - LINES), whatever the old length, 0 included.
C12_LaterReloadShowsTail ==
    [][(ReloadedAgain /\ Relation(contents, contents') \in {"append", "truncate"})
         => rowoff' = Max(0, Len(contents') - LINES)]_vars

\* C13 as stated: when the loop has drawn the screen or comes to draw it, the
\* offset is within [0, max(0, nlines - LINES)] for the height curses has
\* taken in, and 0 when the lines fit.
C13_OffsetFitsNewHeight ==
    pc \in {"draw", "wait"} =>
        /\ 0 <= rowoff
        /\ rowoff <= Max(0, Len(contents) - LINES)
        /\ Len(contents) <= LINES => rowoff = 0

\* The offset a key leaves, by the offset rule: the target of its command
\* clamped, the offset itself for a key that is no navigation command.
Target(k, off, n, H, lk) ==
    CASE k \in {"j", "KEY_DOWN"} -> Clamp(off + 1, n, H)
      [] k \in {"k", "KEY_UP", "KEY_ENTER"} -> Clamp(off - 1, n, H)
      [] k \in {"d", "KEY_PPAGE"} -> Clamp(off + H \div 2, n, H)
      [] k \in {"u", "KEY_NPAGE"} -> Clamp(off - H \div 2, n, H)
      [] k = "G" -> Max(0, n - H)
      [] k = "g" /\ lk = "g" -> 0
      [] OTHER -> off

\* C14: a key leaves the contents as they were and the offset at the clamped
\* target of its command, computed from the offset before: one line down or
\* up, half a page (LINES / 2, rounded down) down or up, the last page for 'G';
\* a key that is no navigation command (and the first 'g') leaves the offset.
C14_KeysMoveByTheOffsetRule ==
    [][(pc = "wait" /\ key' # NUL)
         => /\ contents' = contents
            /\ rowoff' = Target(key', rowoff, Len(contents), LINES, last_key)]_vars

\* C14 witness: half a page down has moved the offset from 0 by LINES / 2 = 1.
C14_Witness ==
    /\ pc = "draw"
    /\ key = "d"
    /\ LINES = 2
    /\ rowoff = 1
    /\ Len(contents) = 3

\* C15 as stated: there is never more than one render child not yet reaped,
\* and none when the loop waits or redraws, between the events of a batch, or
\* when the viewer has exited.
C15_NoChildLeft ==
    /\ children <= 1
    /\ pc \in {"wait", "draw", "events", "exited"} => children = 0

C17_JumpOnEverySecondG ==
    grun[1] >= 1 =>
        /\ grun[2] = grun[1] \div 2
        /\ last_key = "g" <=> grun[1] % 2 = 1
        /\ (pc = "draw" /\ key = "g")
              => rowoff = IF grun[1] % 2 = 0 THEN 0 ELSE screen[1]

\* C17 witness: four 'g' keys in a row, two jumps, on lines that do not fit the
\* screen.
C17_Witness ==
    /\ pc = "draw"
    /\ grun = <<4, 2>>
    /\ Len(contents) > LINES

\* C18: nothing is drawn and no event handled before the forced reload; when
\* main comes to the first draw_screen, one reload has run, its render exited
\* with 0, the contents begin with the first line it wrote and the offset is
\* 0; the loop waits and handles events only after that draw.
C18_OneReloadBeforeLoop ==
    /\ pc = "reload" => (reloads = 0 /\ screen = <<>> /\ contents = <<>>)
    /\ (pc = "draw" /\ screen = <<>>) =>
          /\ reloads = 1
          /\ buf = <<>>
          /\ key = NUL
          /\ wstatus # <<>>
          /\ WIFEXITED(wstatus[1]) /\ WEXITSTATUS(wstatus[1]) = 0
          /\ First(contents) = first
          /\ rowoff = 0
    /\ pc \in {"wait", "events"} => screen # <<>>

\* C18 witness: the first render wrote more lines than the screen has rows,
\* and main is at its first draw_screen with the offset 0.
C18_Witness ==
    /\ pc = "draw"
    /\ screen = <<>>
    /\ Len(contents) > LINES
    /\ rowoff = 0

\* The typed keys not yet handled, oldest first.
Pending == held \o stdin

\* C19 as stated: a pending key is neither dropped nor reordered: the typed
\* keys not yet handled change only by a key typed at their end or by getch()
\* returning the oldest of them, in a turn in which select() reported standard
\* input alone.
C19_KeysKeptInOrder ==
    [][Pending' # Pending
         => \/ \E k \in TypedKeys : Pending' = Append(Pending, k)
            \/ /\ pc = "wait"
               /\ fds' = {STDIN_FILENO}
               /\ Pending' = Tail(Pending)
               /\ key' = Head(Pending)]_vars
====
